---- MODULE Spec2Model ----
(***************************************************************************)
(* anyrun-cliphist (src/lib.rs): the plugin loads the cliphist bucket      *)
(* once in init, answers get_matches per query and handler per selection.  *)
(*                                                                         *)
(* A Rust String is modelled as what it is, a sequence of UTF-8 bytes.     *)
(* The byte alphabet is a handful of ASCII bytes plus the two bytes of the *)
(* scalar U+00E9 (lead byte "C3", continuation byte "A9"), so that byte    *)
(* lengths, char boundaries and invalid UTF-8 are all expressible.         *)
(***************************************************************************)
EXTENDS Integers, Sequences, FiniteSets, TLC

(* ------------------------------ bounds -------------------------------- *)
MaxLog == 3
MaxEntries == 2
MaxTail == 3

(* -------------------------- program constants ------------------------- *)
TitleMax == 100

(* ------------------------------ bytes --------------------------------- *)
Lead == "C3"
Cont == "A9"
NL == "\n"
SP == " "

IsCont(b) == b = Cont

IsUpper(b) == b = "A"

ToLower(b) == IF b = "A" THEN "a" ELSE b

IsSpace(b) == b \in {SP, NL}

Min(a, b) == IF a <= b THEN a ELSE b

Pad(n) == [i \in 1..n |-> "a"]

(* String::from_utf8 on the alphabet: every lead byte is followed by a     *)
(* continuation byte and every continuation byte follows a lead byte.      *)
IsUtf8(v) ==
    \A i \in 1..Len(v) :
        /\ v[i] = Lead => (i < Len(v) /\ v[i + 1] = Cont)
        /\ v[i] = Cont => (i > 1 /\ v[i - 1] = Lead)

(* str::is_char_boundary(n): 0 and len are boundaries, past the end is     *)
(* not, otherwise the byte at offset n must not be a continuation byte.    *)
IsCharBoundary(s, n) ==
    IF n = 0 \/ n = Len(s) THEN TRUE
    ELSE IF n > Len(s) THEN FALSE
    ELSE ~IsCont(s[n + 1])

(* number of Unicode scalars of a valid string *)
NumChars(s) == Cardinality({i \in 1..Len(s) : ~IsCont(s[i])})

(* str::starts_with(&String): a byte-wise prefix test *)
StartsWith(s, p) == Len(p) <= Len(s) /\ SubSeq(s, 1, Len(p)) = p

(* ----------------------------- the bucket ----------------------------- *)
None == [some |-> FALSE]
Some(v) == [some |-> TRUE, v |-> v]

Long == Pad(TitleMax - 1) \o <<Lead, Cont>>

Values == { <<"a", "b">>, <<SP, "A", NL, "b", SP>>, Long, <<Cont>> }

(* a cursor item of a record: cliphist stores a value under every key *)
Items == {Some(v) : v \in Values}

RECURSIVE SeqsUpTo(_, _)
SeqsUpTo(S, n) ==
    IF n = 0 THEN {<<>>}
    ELSE LET shorter == SeqsUpTo(S, n - 1)
         IN  shorter \cup {Append(q, x) : q \in {r \in shorter : Len(r) = n - 1}, x \in S}

Prefixes == { <<>>, <<Lead, Cont>> }

Inputs ==
    { <<>>, <<"b">>, <<"a", "b">>, <<Lead, Cont>>, <<Lead, Cont, "b">>,
      <<Lead, Cont, "A">> }

VARIABLES
    log,            \* the bucket's records, oldest first
    max_entries,    \* State.max_entries
    prefix,         \* State.prefix
    pc,             \* position of the plugin
    tx,             \* the read-only transaction
    cursor_status,  \* result of the last cursor.first()/next()
    pos,            \* records the cursor has yielded
    res,            \* get_clipboard_history's res
    id,             \* get_clipboard_history's id
    loaded,         \* the Result flowing into init's unwrap
    history,        \* State.history
    matches,        \* the RVec<Match> of the last get_matches
    cleaned_input,  \* get_matches' cleaned_input, None before the slice
    last_input,     \* the input of the last get_matches
    selection,      \* the Match of the last handler call
    copied,         \* the bytes of the last HandleResult::Copy
    panic,          \* the panic that ended the last call, "none" if it returned
    pv_in,          \* preview's argument
    pv_out          \* preview's outcome

vars ==
    << log, max_entries, prefix, pc, tx, cursor_status, pos, res, id, loaded,
       history, matches, cleaned_input, last_input, selection, copied,
       panic, pv_in, pv_out >>

cfgVars == << log, max_entries, prefix >>
callVars == << matches, cleaned_input, last_input, selection, copied, panic >>
pvVars == << pv_in, pv_out >>
loadVars == << tx, cursor_status, pos, res, id >>

Ok(h) == [ok |-> TRUE, v |-> h]
Err(e) == [ok |-> FALSE, e |-> e]

Init ==
    /\ log \in UNION {[1..n -> Items] : n \in 0..MaxLog}
    /\ max_entries \in 0..MaxEntries
    /\ prefix \in Prefixes
    /\ pc = "db_path"
    /\ tx = "none"
    /\ cursor_status = "unused"
    /\ pos = 0
    /\ res = <<>>
    /\ id = 0
    /\ loaded = None
    /\ history = <<>>
    /\ matches = <<>>
    /\ cleaned_input = None
    /\ last_input = None
    /\ selection = None
    /\ copied = None
    /\ panic = "none"
    /\ pv_in = None
    /\ pv_out = None

(* ------------------------- get_clipboard_history ---------------------- *)

(* lines 105-110 and 115-120: a value that is valid UTF-8 is pushed with   *)
(* the current id, and only then is the id advanced.                       *)
PushItemIdAlways(r, n, item) ==
    IF item.some /\ IsUtf8(item.v)
    THEN [res |-> Append(r, [id |-> n, s |-> item.v]), id |-> n + 1]
    ELSE [res |-> r, id |-> n + 1]

PushItemIdNever(r, n, item) ==
    IF item.some /\ IsUtf8(item.v)
    THEN [res |-> Append(r, [id |-> n, s |-> item.v]), id |-> n]
    ELSE [res |-> r, id |-> n]

PushItem(r, n, item) ==
    IF item.some /\ IsUtf8(item.v)
    THEN [res |-> Append(r, [id |-> n, s |-> item.v]), id |-> n + 1]
    ELSE [res |-> r, id |-> n]

Reverse(q) == [i \in 1..Len(q) |-> q[Len(q) + 1 - i]]

(* itertools unique_by(|e| e.1.clone()): keeps an element iff no earlier   *)
(* element has the same key.                                               *)
UniqueBy(q) ==
    LET keep == {i \in 1..Len(q) : \A j \in 1..(i - 1) : q[j].s # q[i].s}
        F[i \in 0..Len(q)] ==
            IF i = 0 THEN <<>>
            ELSE IF i \in keep THEN Append(F[i - 1], q[i]) ELSE F[i - 1]
    IN  F[Len(q)]

CollectNoReverse(r) == UniqueBy(r)

(* lines 123-124 *)
Collect(r) == UniqueBy(Reverse(r))

(* init, lines 57-62: a configured db_path always resolves; otherwise the  *)
(* path exists only if dirs::cache_dir() finds a cache directory.          *)
ResolveDbPath ==
    /\ pc = "db_path"
    /\ \E db_path_set \in BOOLEAN, cache_dir_found \in BOOLEAN :
        IF db_path_set \/ cache_dir_found
        THEN /\ pc' = "open"
             /\ UNCHANGED loaded
        ELSE /\ pc' = "unwrap"
             /\ loaded' = Err("CacheDirNotFound")
    /\ UNCHANGED << cfgVars, loadVars, history, callVars, pvVars >>

(* init, lines 64-72 *)
OpenDb ==
    /\ pc = "open"
    /\ \E built \in BOOLEAN :
        IF built
        THEN /\ pc' = "begin_tx"
             /\ UNCHANGED loaded
        ELSE /\ pc' = "unwrap"
             /\ loaded' = Err("DBReadError")
    /\ UNCHANGED << cfgVars, loadVars, history, callVars, pvVars >>

(* line 97 *)
BeginTx ==
    /\ pc = "begin_tx"
    /\ \E begun \in BOOLEAN :
        IF begun
        THEN /\ pc' = "bucket"
             /\ tx' = "open"
             /\ UNCHANGED loaded
        ELSE /\ pc' = "unwrap"
             /\ loaded' = Err("DBTxError")
             /\ UNCHANGED tx
    /\ UNCHANGED << cfgVars, cursor_status, pos, res, id, history, callVars, pvVars >>

(* lines 98-99: on Err the and_then of line 127 is skipped, so the         *)
(* function returns without calling tx.rollback().                         *)
OpenBucket ==
    /\ pc = "bucket"
    /\ \E found \in BOOLEAN :
        IF found
        THEN /\ pc' = "cursor"
             /\ UNCHANGED loaded
        ELSE /\ pc' = "unwrap"
             /\ loaded' = Err("DBBucketError")
    /\ UNCHANGED << cfgVars, loadVars, history, callVars, pvVars >>

(* line 101: as for the bucket, Err bypasses line 127 *)
CreateCursor ==
    /\ pc = "cursor"
    /\ \E created \in BOOLEAN :
        IF created
        THEN /\ pc' = "first"
             /\ UNCHANGED loaded
        ELSE /\ pc' = "unwrap"
             /\ loaded' = Err("DBCursorError")
    /\ UNCHANGED << cfgVars, loadVars, history, callVars, pvVars >>

(* lines 104-110: `if let Ok(item) = cursor.first()`; an Err skips the     *)
(* whole block and falls through to lines 123-124 with res still empty.    *)
(* On an empty bucket first() yields an item without key and value.        *)
CursorFirst ==
    /\ pc = "first"
    /\ \E read \in BOOLEAN :
        IF read
        THEN LET item == IF Len(log) = 0 THEN None ELSE log[1]
                 p == PushItem(res, id, item)
             IN  /\ cursor_status' = "ok"
                 /\ pos' = Min(1, Len(log))
                 /\ res' = p.res
                 /\ id' = p.id
                 /\ pc' = "next"
                 /\ UNCHANGED loaded
        ELSE /\ cursor_status' = "err"
             /\ loaded' = Ok(Collect(res))
             /\ res' = <<>>
             /\ pc' = "rollback"
             /\ UNCHANGED << pos, id >>
    /\ UNCHANGED << cfgVars, tx, history, callVars, pvVars >>

(* lines 111-121: `while let Ok(item) = cursor.next()`; the loop ends on   *)
(* an Err as well as on the item past the last record, and lines 123-124   *)
(* then build the closure's result from whatever res holds.                *)
CursorNext ==
    /\ pc = "next"
    /\ \E read \in BOOLEAN :
        IF read /\ pos < Len(log)
        THEN LET p == PushItem(res, id, log[pos + 1])
             IN  /\ cursor_status' = "ok"
                 /\ pos' = pos + 1
                 /\ res' = p.res
                 /\ id' = p.id
                 /\ UNCHANGED << pc, loaded >>
        ELSE /\ cursor_status' = IF read THEN "ok" ELSE "err"
             /\ loaded' = Ok(Collect(res))
             /\ res' = <<>>
             /\ pc' = "rollback"
             /\ UNCHANGED << pos, id >>
    /\ UNCHANGED << cfgVars, tx, history, callVars, pvVars >>

(* line 127 *)
Rollback ==
    /\ pc = "rollback"
    /\ \E rolled \in BOOLEAN :
        IF rolled
        THEN /\ tx' = "rolled_back"
             /\ UNCHANGED loaded
        ELSE /\ tx' = "rollback_failed"
             /\ loaded' = Err("DBTxError")
    /\ pc' = "unwrap"
    /\ UNCHANGED << cfgVars, cursor_status, pos, res, id, history, callVars, pvVars >>

(* init, lines 74-80: map the history into a State, unwrap panics on Err *)
Unwrap ==
    /\ pc = "unwrap"
    /\ IF loaded.ok
       THEN /\ history' = loaded.v
            /\ pc' = "ready"
       ELSE /\ pc' = "init_panicked"
            /\ UNCHANGED history
    /\ loaded' = None
    /\ UNCHANGED << cfgVars, loadVars, callVars, pvVars >>

(* ------------------------------ preview ------------------------------- *)

(* str::split('\n') *)
RECURSIVE Split(_)
Split(s) ==
    IF \E i \in 1..Len(s) : s[i] = NL
    THEN LET i == CHOOSE k \in 1..Len(s) : s[k] = NL
         IN  Split(SubSeq(s, 1, i - 1)) \o Split(SubSeq(s, i + 1, Len(s)))
    ELSE <<s>>

(* str::trim *)
Trim(l) ==
    IF \A i \in 1..Len(l) : IsSpace(l[i]) THEN <<>>
    ELSE LET a == CHOOSE i \in 1..Len(l) :
                     ~IsSpace(l[i]) /\ \A j \in 1..(i - 1) : IsSpace(l[j])
             b == CHOOSE i \in 1..Len(l) :
                     ~IsSpace(l[i]) /\ \A j \in (i + 1)..Len(l) : IsSpace(l[j])
         IN  SubSeq(l, a, b)

(* Itertools::join(" ") *)
RECURSIVE Join(_)
Join(ls) ==
    IF Len(ls) = 0 THEN <<>>
    ELSE IF Len(ls) = 1 THEN ls[1]
    ELSE ls[1] \o <<SP>> \o Join(Tail(ls))

(* line 194 *)
Formatted(s) == LET ls == Split(s) IN Join([k \in 1..Len(ls) |-> Trim(ls[k])])

(* String::truncate(new_len): a no-op when new_len > len, otherwise it     *)
(* asserts is_char_boundary(new_len) and cuts the bytes.                   *)
Truncate(f, n) ==
    IF n > Len(f) THEN [ok |-> TRUE, title |-> f]
    ELSE IF ~IsCharBoundary(f, n) THEN [ok |-> FALSE, title |-> <<>>]
    ELSE [ok |-> TRUE, title |-> SubSeq(f, 1, n)]

(* lines 193-197 *)
Preview(s) == Truncate(Formatted(s), TitleMax)

(* ----------------------------- fuzzy match ---------------------------- *)

(* SkimMatcherV2::default().smart_case(): the pattern is matched ignoring  *)
(* case unless it holds an uppercase letter.                               *)
SameChar(c, p, case_sensitive) ==
    IF case_sensitive THEN c = p ELSE ToLower(c) = ToLower(p)

(* positions of the leftmost embedding of pattern[j..] in choice[i..],     *)
(* <<0>> when there is none                                                *)
RECURSIVE Embed(_, _, _, _, _)
Embed(choice, pattern, i, j, cs) ==
    IF j > Len(pattern) THEN <<>>
    ELSE IF \A k \in i..Len(choice) : ~SameChar(choice[k], pattern[j], cs) THEN <<0>>
    ELSE LET at == CHOOSE k \in i..Len(choice) :
                       /\ SameChar(choice[k], pattern[j], cs)
                       /\ \A m \in i..(k - 1) : ~SameChar(choice[m], pattern[j], cs)
             rest == Embed(choice, pattern, at + 1, j + 1, cs)
         IN  IF rest = <<0>> THEN <<0>> ELSE <<at>> \o rest

(* fuzzy_match: None unless the pattern is a subsequence of the choice;    *)
(* the score grows with the matched characters and shrinks with the        *)
(* characters skipped between the first and the last of them.              *)
FuzzyMatch(choice, pattern) ==
    LET cs == \E j \in 1..Len(pattern) : IsUpper(pattern[j])
        at == Embed(choice, pattern, 1, 1, cs)
    IN  IF at = <<0>> THEN None
        ELSE Some(16 * Len(at) - (at[Len(at)] - at[1] + 1 - Len(at)))

(* line 167: unwrap_or(0) *)
Score(e, term) ==
    LET m == FuzzyMatch(e.s, term) IN IF m.some THEN m.v ELSE 0

(* ----------------------------- get_matches ---------------------------- *)

(* lines 163-174: filter_map keeps, in history order, the entries whose    *)
(* score is positive                                                       *)
Scored(term) ==
    LET F[i \in 0..Len(history)] ==
            IF i = 0 THEN <<>>
            ELSE LET sc == Score(history[i], term)
                 IN  IF sc > 0
                     THEN Append(F[i - 1], [src |-> i, score |-> sc])
                     ELSE F[i - 1]
    IN  F[Len(history)]

(* line 175: sort_by(|a, b| b.2.cmp(&a.2)) is a stable sort, so an element *)
(* goes behind every element whose score is at least its own.              *)
RECURSIVE Insert(_, _)
Insert(sorted, x) ==
    IF sorted = <<>> THEN <<x>>
    ELSE IF Head(sorted).score >= x.score
         THEN <<Head(sorted)>> \o Insert(Tail(sorted), x)
         ELSE <<x>> \o sorted

SortByScore(es) ==
    LET F[i \in 0..Len(es)] == IF i = 0 THEN <<>> ELSE Insert(F[i - 1], es[i])
    IN  F[Len(es)]

(* line 176: Vec::truncate never fails *)
VecTruncate(es, n) == SubSeq(es, 1, Min(n, Len(es)))

(* lines 161-176 *)
Ranked(term) == VecTruncate(SortByScore(Scored(term)), max_entries)

CleanedInputUnstripped(input) == input

(* line 145: &input[state.prefix.len()..] *)
CleanedInput(input) == SubSeq(input, Len(prefix) + 1, Len(input))

(* lines 140-191.  A Match carries title and id; src records the history   *)
(* index it was built from.                                                *)
GetMatchesOutcome(input) ==
    IF ~StartsWith(input, prefix)
    THEN [panic |-> "none", out |-> <<>>, term |-> None]
    ELSE IF ~IsCharBoundary(input, Len(prefix))
    THEN [panic |-> "str_slice", out |-> <<>>, term |-> None]
    ELSE
        LET term == CleanedInput(input)
        IN  IF term = <<>> /\ max_entries > Len(history)
            THEN [panic |-> "slice_end", out |-> <<>>, term |-> Some(term)]
            ELSE
                LET picked == IF term = <<>>
                              THEN [k \in 1..max_entries |-> [src |-> k]]
                              ELSE Ranked(term)
                    pv == [k \in 1..Len(picked) |-> Preview(history[picked[k].src].s)]
                IN  IF \E k \in 1..Len(picked) : ~pv[k].ok
                    THEN [panic |-> "truncate", out |-> <<>>, term |-> Some(term)]
                    ELSE [panic |-> "none",
                          out |-> [k \in 1..Len(picked) |->
                                      [title |-> pv[k].title,
                                       id |-> history[picked[k].src].id,
                                       src |-> picked[k].src]],
                          term |-> Some(term)]

GetMatches ==
    /\ pc = "ready"
    /\ \E input \in Inputs :
        \E o \in {GetMatchesOutcome(input)} :
            /\ matches' = o.out
            /\ cleaned_input' = o.term
            /\ last_input' = Some(input)
            /\ panic' = o.panic
            /\ pc' = IF o.panic = "none" THEN "ready" ELSE "crashed"
    /\ selection' = None
    /\ copied' = None
    /\ UNCHANGED << cfgVars, loadVars, loaded, history, pvVars >>

(* ------------------------------- handler ------------------------------ *)

(* lines 201-211: find_map yields the first entry with the selected id *)
FindEntry(sel_id) ==
    LET hits == {i \in 1..Len(history) : history[i].id = sel_id}
    IN  IF hits = {} THEN None
        ELSE Some(history[CHOOSE i \in hits : \A j \in hits : i <= j].s)

(* lines 199-213: the host passes back one of the Matches it was given *)
Handler ==
    /\ pc = "ready"
    /\ \E k \in 1..Len(matches) :
        LET entry == FindEntry(matches[k].id)
        IN  /\ selection' = Some(matches[k])
            /\ copied' = entry
            /\ panic' = IF entry.some THEN "none" ELSE "unwrap_none"
            /\ pc' = IF entry.some THEN "ready" ELSE "crashed"
    /\ UNCHANGED << cfgVars, loadVars, loaded, history, matches, cleaned_input,
                    last_input, pvVars >>

Next ==
    \/ ResolveDbPath
    \/ OpenDb
    \/ BeginTx
    \/ OpenBucket
    \/ CreateCursor
    \/ CursorFirst
    \/ CursorNext
    \/ Rollback
    \/ Unwrap
    \/ GetMatches
    \/ Handler

Spec == Init /\ [][Next]_vars

(* ------------------- preview as a function of its input --------------- *)

Units == { <<"a">>, <<Lead, Cont>>, <<NL>>, <<SP>> }

RECURSIVE Flatten(_)
Flatten(us) == IF us = <<>> THEN <<>> ELSE Head(us) \o Flatten(Tail(us))

PadLens == {0} \cup ((TitleMax - MaxTail - 1)..TitleMax)

PreviewInputs == {Pad(k) \o Flatten(t) : k \in PadLens, t \in SeqsUpTo(Units, MaxTail)}

InitPreview ==
    /\ log = <<>>
    /\ max_entries = 0
    /\ prefix = <<>>
    /\ pc = "preview"
    /\ tx = "none"
    /\ cursor_status = "unused"
    /\ pos = 0
    /\ res = <<>>
    /\ id = 0
    /\ loaded = None
    /\ history = <<>>
    /\ matches = <<>>
    /\ cleaned_input = None
    /\ last_input = None
    /\ selection = None
    /\ copied = None
    /\ panic = "none"
    /\ pv_in \in {Some(s) : s \in PreviewInputs}
    /\ pv_out = None

PreviewCall ==
    /\ pc = "preview"
    /\ pv_out' = Some(Preview(pv_in.v))
    /\ pc' = "previewed"
    /\ UNCHANGED << cfgVars, loadVars, loaded, history, callVars, pv_in >>

NextPreview == PreviewCall

SpecPreview == InitPreview /\ [][NextPreview]_vars

(* ------------------------------ properties ---------------------------- *)

(* the last call was get_matches (it clears the handler's outcome) *)
GotMatches == last_input.some /\ ~selection.some

IsPrefixOf(p, s) == Len(p) <= Len(s) /\ \A i \in 1..Len(p) : s[i] = p[i]

IsValidItem(item) == item.some /\ IsUtf8(item.v)

ItemValue(items) == [k \in 1..Len(items) |-> items[k].v]

(* the valid UTF-8 values among the records the cursor yielded, oldest first *)
ValidRead == ItemValue(SelectSeq(SubSeq(log, 1, pos), IsValidItem))

(* the position of the most recent record of V with content c *)
LastAt(V, c) == CHOOSE k \in 1..Len(V) : V[k] = c /\ \A m \in (k + 1)..Len(V) : V[m] # c

Returned == pc \in {"unwrap", "ready", "init_panicked", "crashed"}

(* C1: every get_matches call, whatever the store, the limit and the query, *)
(* returns without panicking and returns at most max_entries results.       *)
C1_NoPanicAtMostLimit ==
    GotMatches => (panic = "none" /\ Len(matches) <= max_entries)

(* C2: when the query is exactly the prefix (empty search term) get_matches *)
(* returns the first min(max_entries, len(history)) entries in stored order, *)
(* one result per entry with that entry's id.                                *)
C2_EmptyTermFirstEntries ==
    (GotMatches /\ IsPrefixOf(prefix, last_input.v) /\ Len(last_input.v) = Len(prefix))
        => /\ panic = "none"
           /\ Len(matches) = Min(max_entries, Len(history))
           /\ \A k \in 1..Len(matches) :
                  matches[k].src = k /\ matches[k].id = history[k].id

C5_HandlerReturnsEntry ==
    selection.some =>
        /\ panic = "none"
        /\ copied = Some(history[selection.v.src].s)
        /\ Cardinality({i \in 1..Len(history) : history[i].id = selection.v.id}) = 1

C5_Witness ==
    /\ selection.some
    /\ copied.some
    /\ selection.v.src >= 2

Outranks(term, i, j) ==
    \/ Score(history[i], term) > Score(history[j], term)
    \/ Score(history[i], term) = Score(history[j], term) /\ i < j

(* the matches are the positively scored entries, best score first, equal  *)
(* scores in stored order, cut to max_entries                               *)
IsRanking(term) ==
    LET positive == {i \in 1..Len(history) : Score(history[i], term) > 0}
        shown == {matches[k].src : k \in 1..Len(matches)}
    IN  /\ Len(matches) = Min(max_entries, Cardinality(positive))
        /\ shown \subseteq positive
        /\ \A k \in 1..Len(matches) : matches[k].id = history[matches[k].src].id
        /\ \A k \in 1..(Len(matches) - 1) :
               Outranks(term, matches[k].src, matches[k + 1].src)
        /\ \A i \in positive \ shown : \A k \in 1..Len(matches) :
               Outranks(term, matches[k].src, i)

SearchesTerm ==
    GotMatches /\ IsPrefixOf(prefix, last_input.v) /\ Len(last_input.v) > Len(prefix)

(* C6: for a non-empty search term get_matches returns exactly the entries  *)
(* with a positive fuzzy score, by score descending, ties in stored order,  *)
(* truncated to max_entries (hence the same answer on every call).          *)
C6_RankedPositiveScores ==
    SearchesTerm =>
        (panic = "none" /\ IsRanking(SubSeq(last_input.v, Len(prefix) + 1, Len(last_input.v))))

(* the ranking of the calls that do return *)
RankingOfReturnedMatches ==
    (SearchesTerm /\ panic = "none") =>
        IsRanking(SubSeq(last_input.v, Len(prefix) + 1, Len(last_input.v)))

(* C7: with a non-empty prefix, a query that does not start with it gets an *)
(* empty answer; for a query that does, the search term is the query with   *)
(* exactly the leading prefix removed.                                      *)
C7_PrefixGate ==
    (GotMatches /\ prefix # <<>>) =>
        IF IsPrefixOf(prefix, last_input.v)
        THEN cleaned_input.some /\ prefix \o cleaned_input.v = last_input.v
        ELSE panic = "none" /\ matches = <<>> /\ ~cleaned_input.some

C7_Witness ==
    /\ GotMatches
    /\ prefix # <<>>
    /\ IsPrefixOf(prefix, last_input.v)
    /\ cleaned_input.some
    /\ cleaned_input.v # <<>>
    /\ matches # <<>>

(* the first n Unicode scalars of a valid string *)
FirstChars(f, n) ==
    LET cuts == {m \in 0..Len(f) : IsCharBoundary(f, m) /\ NumChars(SubSeq(f, 1, m)) <= n}
    IN  SubSeq(f, 1, CHOOSE m \in cuts : \A k \in cuts : k <= m)

(* C8: preview completes for every content, multi-byte characters included, *)
(* and its title has no newline and at most 100 characters; a normalized    *)
(* content of more than 100 characters gives exactly its first 100.         *)
C8_PreviewTitle ==
    pv_out.some =>
        /\ pv_out.v.ok
        /\ \A i \in 1..Len(pv_out.v.title) : pv_out.v.title[i] # NL
        /\ NumChars(pv_out.v.title) <= TitleMax
        /\ NumChars(Formatted(pv_in.v)) > TitleMax
               => pv_out.v.title = FirstChars(Formatted(pv_in.v), TitleMax)

(* C9: when a step of loading fails, a cursor read included, init yields no *)
(* State: a State exists only if the cursor reported no error and yielded   *)
(* every record.                                                            *)
C9_NoStateAfterLoadFailure ==
    pc \in {"ready", "crashed"} => (cursor_status = "ok" /\ pos = Len(log))

(* C10: once the read-only transaction has begun it is released before      *)
(* get_clipboard_history returns, on the error paths as on success.          *)
C10_TxReleasedOnReturn ==
    (Returned /\ tx # "none") => tx # "open"

====
